---- MODULE Spec2Model ----
(***************************************************************************)
(* Model of the real-time transcription proxy:                             *)
(*   TranscriptionProxy  (proxy.ts, webhook + WebSocket ingress)           *)
(*   TranscriptionClient (gladia.ts, provider bridge)                      *)
(*   TranscriptLogger    (transcriptLogger.ts, session journal)            *)
(*   SIGINT handler      (index.ts)                                        *)
(* Every handler of the event loop is one action.  A handler that awaits   *)
(* a network promise (initSession, streamingSession.close) is split at the *)
(* await: the continuation is its own action.                              *)
(***************************************************************************)
EXTENDS Integers, Sequences, FiniteSets, TLC

\* ---------------------------------------------------------------- bounds
MaxConns == 2
MaxFrames == 2
MaxInits == 2
MaxWebhooks == 2
MaxTranscripts == 2
MaxSpeakerFrames == 3
MaxEntries == 3
MaxSigints == 2

Conns == 1..MaxConns
SessIds == 1..MaxInits
Names == {"A", "B"}
NoSpeaker == "null"
\* event.speaker of a provider transcript: a speaker number, or -1 for undefined
ProviderSpeakers == {-1, 0}

VARIABLES
  mode, recordingEnabled, loggingEnabled,      \* configuration
  waitingForRecordingStatus, transcriptionInitialized, isGladiaSessionActive,
  conn, closeCalled, meetingBaasClients, botClient,
  lastSpeaker, audioBuffers,
  streamingSession, transcriptLogger, sess, nInits, endCalls,
  journal, finalTranscripts, loggerEnded,
  errPc, sigPc, isShuttingDown, exited, botCreate,
  arrivals, chunkCalls, sentAudio, inFlight,   \* audio observation
  sendResults,                                 \* what sendAudioChunk returned
  saves, closeCount, loggerEnds,               \* teardown observation
  wav, sessionFirst,                           \* recording file and session start
  webhooks, lastWebhook, webhookRepeated,      \* webhook observation
  meetingBaasHandlers, response, handlerCalls, \* webhook route
  reqs, dispatchLog,                           \* webhook requests in flight and their log
  speakerFrames, speakerNotifs,                \* speaker observation
  events,                                      \* transcript observation
  botRelay, firstFrames, sigintAt,             \* relay, first-message and SIGINT observation
  sigints                                      \* SIGINT deliveries and handler invocations

config == <<mode, recordingEnabled, loggingEnabled>>
flags == <<waitingForRecordingStatus, transcriptionInitialized, isGladiaSessionActive>>
sockets == <<conn, closeCalled, meetingBaasClients, botClient>>
client == <<streamingSession, transcriptLogger, sess, nInits, endCalls, journal,
           finalTranscripts, loggerEnded>>
process == <<errPc, sigPc, isShuttingDown, exited, botCreate>>
audioObs == <<arrivals, chunkCalls, sentAudio, inFlight, sendResults>>
teardownObs == <<saves, closeCount, loggerEnds, wav, sessionFirst>>
webhookObs == <<webhooks, lastWebhook, webhookRepeated,
                meetingBaasHandlers, response, handlerCalls, reqs, dispatchLog>>
speakerObs == <<speakerFrames, speakerNotifs>>
observerObs == <<botRelay, firstFrames, sigintAt, sigints>>

vars == <<config, flags, sockets, lastSpeaker, audioBuffers, client, process,
          audioObs, teardownObs, webhookObs, speakerObs, events, observerObs>>

\* ------------------------------------------------------- webhook events
StatusString(s) == [isObject |-> FALSE, str |-> s, code |-> ""]
StatusObject(c) == [isObject |-> TRUE, str |-> "[object Object]", code |-> c]
NoStatus == [isObject |-> FALSE, str |-> "undefined", code |-> ""]

StatusCodes == {"in_call_not_recording", "in_call_recording", "call_ended"}

WebhookEvents ==
  {[event |-> "bot.status_change", status |-> StatusString(c)] : c \in StatusCodes}
  \cup {[event |-> "bot.status_change", status |-> StatusObject(c)] : c \in StatusCodes}
  \cup {[event |-> e, status |-> NoStatus] :
          e \in {"meeting.ended", "bot.recording_permission_denied", "bot.joined"}}

NoEvent == [event |-> "none", status |-> NoStatus]

\* HTTP status codes of the webhook route
HttpOk == 200
HttpBadRequest == 400
HttpServerError == 500

\* createWavHeader: the header length and the RIFF chunk overhead
WavHeaderBytes == 44
RiffOverhead == 36

\* Byte lengths of the PCM frames the model sends; FixedFrameBytes is one
\* 16-bit sample.
FrameSizes == {0, 2, 4}
FixedFrameBytes == 2
NoWav == [written |-> FALSE, riff |-> 0, dataLen |-> 0, fileLen |-> 0,
          frames |-> <<>>, from |-> 0, upTo |-> 0]

\* Keys of the meetingBaasHandlers map and what a registered handler does
\* when called.
HandlerKeys == {"meeting.ended", "*"}
HandlerBehaviours == {"returns", "throws"}
\* A handler that returns a promise settling in a later turn of the event loop.
AsyncBehaviours == {"resolves", "rejects"}
NoHandler == "none"
NoResponse == [status |-> 0, body |-> {}]
NoSigint == [seen |-> FALSE, streaming |-> FALSE, s |-> 0, logger |-> 0, ingress |-> {}]

\* Request bodies without a usable event field: the field is absent or is
\* the empty string; one of them carries the gate status all the same.
MalformedBodies ==
  {[event |-> "undefined", status |-> NoStatus],
   [event |-> "", status |-> NoStatus],
   [event |-> "undefined", status |-> StatusObject("in_call_not_recording")]}

\* proxy.ts: statusCode = typeof statusObj === "object" && statusObj !== null
\*                          ? statusObj.code : statusObj
StatusCode(status) == IF status.isObject THEN status.code ELSE status.str

\* proxy.ts initializeTranscriptionSession: the early return
AlreadyInitializedNever(initialized, active) == FALSE

AlreadyInitialized(initialized, active) == initialized \/ active

\* The state-machine part of processMeetingBaasWebhook, on a record
\* [waiting, initialized, active, opens]; opens counts initSession() calls.
ProcessWebhookNoGuard(st, ev) ==
  IF ev.event = "bot.status_change" /\ StatusCode(ev.status) = "in_call_not_recording"
  THEN [st EXCEPT !.initialized = TRUE, !.opens = @ + 1]
  ELSE st

ProcessWebhookEndedResets(st, ev) ==
  IF ev.event = "bot.status_change"
     /\ StatusCode(ev.status) = "in_call_not_recording"
     /\ st.waiting /\ ~st.initialized
  THEN IF AlreadyInitialized(st.initialized, st.active)
       THEN [st EXCEPT !.waiting = FALSE]
       ELSE [st EXCEPT !.waiting = FALSE, !.initialized = TRUE, !.opens = @ + 1]
  ELSE IF ev.event = "meeting.ended"
       THEN [st EXCEPT !.waiting = TRUE, !.initialized = FALSE]
       ELSE st

ProcessWebhook(st, ev) ==
  IF ev.event = "bot.status_change"
     /\ StatusCode(ev.status) = "in_call_not_recording"
     /\ st.waiting /\ ~st.initialized
  THEN IF AlreadyInitialized(st.initialized, st.active)
       THEN [st EXCEPT !.waiting = FALSE]
       ELSE [st EXCEPT !.waiting = FALSE, !.initialized = TRUE, !.opens = @ + 1]
  ELSE st

Machine == [waiting |-> waitingForRecordingStatus,
            initialized |-> transcriptionInitialized,
            active |-> isGladiaSessionActive,
            opens |-> nInits]

\* ------------------------------------------------------------- helpers
Min(a, b) == IF a < b THEN a ELSE b
Running == exited = "no"

\* TranscriptionProxy.saveAudioToFile: writes a WAV file unless recording is
\* disabled or nothing was captured.
SaveWrites == recordingEnabled /\ audioBuffers # <<>>
SavesAfterSave == IF SaveWrites THEN Min(saves + 1, 2) ELSE saves

\* Buffer.concat(buffers).length
RECURSIVE ConcatLength(_)
ConcatLength(buffers) ==
  IF buffers = <<>> THEN 0 ELSE Head(buffers).bytes + ConcatLength(Tail(buffers))

\* What saveAudioToFile concatenates: every buffer pushed since the proxy was
\* constructed (audioBuffers is never emptied).
SavedBuffers(buffers, first) == buffers

\* createWavHeader(dataLength) followed by the data, as written by
\* saveAudioToFile; frames names the frames whose bytes are in the data
\* sub-chunk, in order (an empty buffer contributes nothing); from and upTo
\* are the first frame of the session and the last frame received when the
\* file is written.
WavFile(buffers, first, last) ==
  LET data == SavedBuffers(buffers, first)
      n == ConcatLength(data)
      filled == SelectSeq(data, LAMBDA b : b.bytes > 0)
  IN [written |-> TRUE, riff |-> RiffOverhead + n, dataLen |-> n,
      fileLen |-> WavHeaderBytes + n,
      frames |-> [i \in 1..Len(filled) |-> filled[i].f],
      from |-> first, upTo |-> last]

WavAfterSave == IF SaveWrites THEN WavFile(audioBuffers, sessionFirst, Len(arrivals))
                ELSE wav

\* The state after `new TranscriptionProxy(m)` under proxyConfig
\* recording.enabled = rec and transcriptLogging.enabled = log.
InitWith(m, rec, log) ==
  /\ mode = m
  /\ recordingEnabled = rec
  /\ loggingEnabled = log
  /\ waitingForRecordingStatus = (mode # "Local")
  /\ transcriptionInitialized = FALSE
  /\ isGladiaSessionActive = FALSE
  /\ conn = [c \in Conns |-> "idle"]
  /\ closeCalled = {}
  /\ meetingBaasClients = {}
  /\ botClient = 0
  /\ lastSpeaker = NoSpeaker
  /\ audioBuffers = <<>>
  /\ streamingSession = 0
  /\ transcriptLogger = 0
  /\ sess = [s \in SessIds |-> "none"]
  /\ nInits = 0
  /\ endCalls = {}
  /\ journal = [s \in SessIds |-> <<>>]
  /\ finalTranscripts = [s \in SessIds |-> <<>>]
  /\ loggerEnded = {}
  /\ errPc = [s \in SessIds |-> "idle"]
  /\ sigPc = "idle"
  /\ isShuttingDown = FALSE
  /\ exited = "no"
  /\ botCreate = IF m = "Remote" THEN "pending" ELSE "na"
  /\ arrivals = <<>>
  /\ chunkCalls = <<>>
  /\ sentAudio = <<>>
  /\ inFlight = {}
  /\ sendResults = {}
  /\ saves = 0
  /\ closeCount = [s \in SessIds |-> 0]
  /\ loggerEnds = [s \in SessIds |-> 0]
  /\ wav = NoWav
  /\ sessionFirst = 1
  /\ webhooks = 0
  /\ lastWebhook = NoEvent
  /\ webhookRepeated = FALSE
  /\ meetingBaasHandlers = [k \in HandlerKeys |-> NoHandler]
  /\ response = NoResponse
  /\ handlerCalls = <<>>
  /\ reqs = <<>>
  /\ dispatchLog = <<>>
  /\ speakerFrames = <<>>
  /\ speakerNotifs = <<>>
  /\ events = <<>>
  /\ botRelay = {}
  /\ firstFrames = {}
  /\ sigintAt = NoSigint
  /\ sigints = [delivered |-> 0, started |-> 0, pre |-> 0]

Modes == {"Local", "Remote"}

\* Recording and transcript logging both enabled (the journal is enabled by
\* default, config.ts), in either mode.
Init == \E m \in Modes : InitWith(m, TRUE, TRUE)

\* Every configuration.
InitAnyConfig == \E m \in Modes, rec \in BOOLEAN, log \in BOOLEAN : InitWith(m, rec, log)


\* ------------------------------------------------- provider bridge parts
\* TranscriptionClient.initSession up to `await router.transcribeStream`:
\* a new TranscriptLogger replaces the reference, then the open is requested.
BeginInitSession ==
  /\ nInits < MaxInits
  /\ nInits' = nInits + 1
  /\ sess' = [sess EXCEPT ![nInits + 1] = "opening"]
  /\ transcriptLogger' = IF loggingEnabled THEN nInits + 1 ELSE transcriptLogger

\* The TranscriptLogger constructor creates the session directory and the raw
\* log, and initSession's updateMetadata writes transcript.json: the files of
\* journal k exist as soon as initSession number k has constructed its logger.
SessionDirExists(k) == loggingEnabled /\ k \in 1..nInits

\* TranscriptLogger.endSession through TranscriptionClient.endSession
LoggerEndedAfter == IF transcriptLogger # 0 THEN loggerEnded \cup {transcriptLogger}
                    ELSE loggerEnded
LoggerEndsAfter == IF transcriptLogger # 0
                   THEN [loggerEnds EXCEPT ![transcriptLogger] = Min(@ + 1, 2)]
                   ELSE loggerEnds

\* The frames the audio branch hands to gladiaClient.sendAudioChunk when
\* frame f arrives.
ChunksForwardedBuffering(active, f) ==
  IF active
  THEN LET held == {i \in 1..Len(arrivals) :
                      \A j \in 1..Len(chunkCalls) : chunkCalls[j] # i}
       IN [i \in 1..Cardinality(held) |->
             CHOOSE x \in held : Cardinality({y \in held : y < x}) = i - 1] \o <<f>>
  ELSE <<>>

ChunksForwarded(active, f) == IF active THEN <<f>> ELSE <<>>

\* The provider send stream after streamingSession.sendAudio({data: f}).
SendAudioReversed(stream, s, f) == <<[s |-> s, f |-> f]>> \o stream

SendAudio(stream, s, f) == Append(stream, [s |-> s, f |-> f])

\* TranscriptionClient.sendAudioChunk for each chunk of a sequence, in order.
RECURSIVE SendAudioChunks(_, _, _)
SendAudioChunks(stream, s, chunks) ==
  IF chunks = <<>> \/ s = 0 THEN stream
  ELSE SendAudioChunks(SendAudio(stream, s, Head(chunks)), s, Tail(chunks))

\* ------------------------------------------------------------ shutdown
OpenClients == {c \in meetingBaasClients : conn[c] = "ingress" /\ c \notin closeCalled}
OpenBot == IF botClient # 0 /\ botClient \notin closeCalled THEN {botClient} ELSE {}

\* TranscriptionProxy.shutdown after `await endSession()`, then the caller's
\* process.exit(code).  pre is the set of sockets closed by the caller before.
ShutdownFinish(code, pre) ==
  /\ isGladiaSessionActive' = FALSE
  /\ closeCalled' = closeCalled \cup pre \cup OpenClients \cup OpenBot
  /\ exited' = code

\* TranscriptionProxy.shutdown up to `await this.gladiaClient.endSession()`.
\* who is "sigint" or "error"; k the failed session of an error teardown.
ShutdownBegin(who, k, code, pre) ==
  /\ saves' = SavesAfterSave
  /\ wav' = WavAfterSave
  /\ sessionFirst' = sessionFirst
  /\ IF isGladiaSessionActive /\ streamingSession # 0
     THEN /\ endCalls' = endCalls \cup {[s |-> streamingSession, owner |-> who, k |-> k]}
          /\ sess' = [sess EXCEPT ![streamingSession] = "closing"]
          /\ closeCount' = [closeCount EXCEPT ![streamingSession] = Min(@ + 1, 2)]
          /\ closeCalled' = closeCalled \cup pre
          /\ UNCHANGED <<isGladiaSessionActive, exited, streamingSession,
                         transcriptLogger, loggerEnded, loggerEnds>>
     ELSE /\ IF isGladiaSessionActive
             THEN /\ transcriptLogger' = 0
                  /\ loggerEnded' = LoggerEndedAfter
                  /\ loggerEnds' = LoggerEndsAfter
             ELSE UNCHANGED <<transcriptLogger, loggerEnded, loggerEnds>>
          /\ ShutdownFinish(code, pre)
          /\ UNCHANGED <<endCalls, sess, closeCount, streamingSession>>


\* -------------------------------------------------------------- actions
\* TranscriptionProxy.initializeTranscriptionSession
InitializeTranscriptionSession ==
  IF AlreadyInitialized(transcriptionInitialized, isGladiaSessionActive)
  THEN UNCHANGED <<transcriptionInitialized, nInits, sess, transcriptLogger>>
  ELSE /\ transcriptionInitialized' = TRUE
       /\ BeginInitSession

\* server.on("connection"): the socket waits for its first message.
Connect(c) ==
  /\ Running /\ conn[c] = "idle"
  /\ conn' = [conn EXCEPT ![c] = "pending"]
  /\ UNCHANGED <<config, flags, closeCalled, meetingBaasClients, botClient, lastSpeaker,
                 audioBuffers, client, process, audioObs, teardownObs, webhookObs,
                 speakerObs, events, observerObs>>

\* ws.once("message"): a {type:"register", client:"bot"} message makes the
\* socket the bot client (setupBotClient), any other first message makes it
\* an audio ingress (setupMeetingBaasClient).  The first message itself is
\* consumed by the classification.
FirstMessageEffect(c, register) ==
  /\ Running /\ conn[c] = "pending"
  /\ IF register
     THEN /\ conn' = [conn EXCEPT ![c] = "bot"]
          /\ botClient' = c
          /\ UNCHANGED <<meetingBaasClients, transcriptionInitialized, nInits, sess,
                         transcriptLogger, saves, sessionFirst>>
     ELSE /\ conn' = [conn EXCEPT ![c] = "ingress"]
          /\ meetingBaasClients' = meetingBaasClients \cup {c}
          /\ botClient' = botClient
          /\ saves' = IF meetingBaasClients = {} THEN 0 ELSE saves
          /\ sessionFirst' = IF meetingBaasClients = {} THEN Len(arrivals) + 1
                             ELSE sessionFirst
          /\ IF waitingForRecordingStatus
             THEN UNCHANGED <<transcriptionInitialized, nInits, sess, transcriptLogger>>
             ELSE InitializeTranscriptionSession
  /\ UNCHANGED <<config, waitingForRecordingStatus, isGladiaSessionActive, closeCalled,
                 lastSpeaker, audioBuffers, streamingSession, endCalls, journal, finalTranscripts,
                 loggerEnded, process, audioObs, closeCount, loggerEnds, wav, webhookObs,
                 speakerObs, events, botRelay, sigintAt, sigints>>

FirstMessage(c, register) == FirstMessageEffect(c, register) /\ UNCHANGED firstFrames

\* The same handler when the first message is a raw PCM frame, with the
\* frame recorded: it classifies the socket as ingress and is not passed on.
FirstMessagePcm(c) ==
  /\ FirstMessageEffect(c, FALSE)
  /\ firstFrames' = firstFrames \cup
                      {[conn |-> c, gateOpen |-> ~waitingForRecordingStatus,
                        handleOpen |-> isGladiaSessionActive /\ streamingSession # 0,
                        forwarded |-> FALSE]}

\* The relay at the end of the ingress message handler: the message is sent
\* to the bot socket when it is open.  relay holds the kinds of ingress
\* messages sent to the bot so far.
RelayedToBot(relay, kind) ==
  IF botClient # 0 /\ conn[botClient] = "bot" /\ botClient \notin closeCalled
  THEN relay \cup {kind} ELSE relay

\* The end of the audio branch: `if (proxyConfig.recording.enabled)
\* this.audioBuffers.push(Buffer.from(message))`, outside the test of
\* isGladiaSessionActive that guards the forwarding.
RecordedBuffersWhenForwarded(enabled, active, buffers, entry) ==
  IF enabled /\ active THEN Append(buffers, entry) ELSE buffers

RecordedBuffers(enabled, active, buffers, entry) ==
  IF enabled THEN Append(buffers, entry) ELSE buffers

\* The catch branch of the ingress message handler (the audio branch), for a
\* payload of the given kind and byte length.
AudioBranch(c, bytes, kind) ==
  /\ Running /\ conn[c] = "ingress" /\ Len(arrivals) < MaxFrames
  /\ LET f == Len(arrivals) + 1
         chunks == ChunksForwarded(isGladiaSessionActive, f)
     IN /\ arrivals' = Append(arrivals, [conn |-> c,
                                          gateOpen |-> ~waitingForRecordingStatus,
                                          active |-> isGladiaSessionActive,
                                          bytes |-> bytes, kind |-> kind])
        /\ chunkCalls' = chunkCalls \o chunks
        /\ sentAudio' = SendAudioChunks(sentAudio, streamingSession, chunks)
        /\ inFlight' = IF streamingSession # 0
                       THEN inFlight \cup {chunks[i] : i \in 1..Len(chunks)}
                       ELSE inFlight
        /\ audioBuffers' = RecordedBuffers(recordingEnabled, isGladiaSessionActive,
                                            audioBuffers, [f |-> f, bytes |-> bytes])
        /\ botRelay' = RelayedToBot(botRelay, "pcm")
  /\ UNCHANGED <<config, flags, sockets, lastSpeaker, client, process, teardownObs,
                 webhookObs, speakerObs, events, sendResults,
                 firstFrames, sigintAt, sigints>>

\* ws.on("message") of an ingress socket, payload of the given byte length
\* that does not parse as JSON.
PcmFrameEffect(c, bytes) == AudioBranch(c, bytes, "pcm")

\* A frame of one 16-bit sample.
PcmFrame(c) == PcmFrameEffect(c, FixedFrameBytes)

\* A frame of any of the byte lengths.
PcmFrameSized(c, bytes) == PcmFrameEffect(c, bytes)

\* The promise of one streamingSession.sendAudio call settles (resolved or
\* rejected: sendAudioChunk catches the rejection and returns false).
SendSettledEffect(f) ==
  /\ Running /\ f \in inFlight
  /\ inFlight' = inFlight \ {f}
  /\ UNCHANGED <<config, flags, sockets, lastSpeaker, audioBuffers, client, process,
                 arrivals, chunkCalls, sentAudio, teardownObs, webhookObs, speakerObs,
                 events, observerObs>>

SendSettled(f) == SendSettledEffect(f) /\ UNCHANGED sendResults

\* What the promise of sendAudioChunk settles to when the provider's
\* sendAudio resolved or rejected.
SendAudioChunkRethrows(rejected) == IF rejected THEN "throws" ELSE "true"

SendAudioChunkResult(rejected) == IF rejected THEN "false" ELSE "true"

\* The same settlement with the outcome kept; at is the number of frames
\* received so far.
SendSettledWith(f, rejected) ==
  /\ SendSettledEffect(f)
  /\ sendResults' = sendResults \cup
                      {[f |-> f, rejected |-> rejected,
                        result |-> SendAudioChunkResult(rejected),
                        at |-> Len(arrivals)]}

\* POST /webhooks/meetingbaas with a well-formed body: the effect of
\* processMeetingBaasWebhook on the proxy and the bridge.
WebhookEffect(ev) ==
  /\ Running
  /\ LET st == ProcessWebhook(Machine, ev)
     IN /\ waitingForRecordingStatus' = st.waiting
        /\ transcriptionInitialized' = st.initialized
        /\ isGladiaSessionActive' = st.active
        /\ IF st.opens > nInits THEN BeginInitSession
           ELSE UNCHANGED <<nInits, sess, transcriptLogger>>
  /\ UNCHANGED <<config, sockets, lastSpeaker, audioBuffers, streamingSession, endCalls,
                 journal, finalTranscripts, loggerEnded, process, audioObs, teardownObs, speakerObs,
                 events, observerObs>>

Webhook(ev) == WebhookEffect(ev) /\ UNCHANGED webhookObs

\* The same request, with the request log kept.
WebhookLogged(ev) ==
  /\ webhooks < MaxWebhooks
  /\ WebhookEffect(ev)
  /\ webhooks' = webhooks + 1
  /\ lastWebhook' = ev
  /\ webhookRepeated' = (lastWebhook = ev)
  /\ UNCHANGED <<meetingBaasHandlers, response, handlerCalls, reqs, dispatchLog>>

\* The route's test `if (!event.event)`: the body has no usable event type.
MissingEventTypeNever(body) == FALSE

MissingEventType(body) == body.event \in {"undefined", ""}

\* The handlers processMeetingBaasWebhook calls for an event type, in order:
\* the typed handler when one is registered, then the wildcard handler.
HandlersCalled(handlers, eventType) ==
  (IF eventType \in HandlerKeys \ {"*"} /\ handlers[eventType] # NoHandler
   THEN <<eventType>> ELSE <<>>)
  \o (IF handlers["*"] # NoHandler THEN <<"*">> ELSE <<>>)

\* The response of the route for a body, given the registered handlers: 400
\* for a missing event type; otherwise the event is processed, an exception
\* of a handler is caught and logged inside processMeetingBaasWebhook, and
\* the answer is 200.
RouteResponse(handlers, body) ==
  IF MissingEventType(body)
  THEN [status |-> HttpBadRequest, body |-> {"error", "details"}]
  ELSE [status |-> HttpOk, body |-> {"received", "event"}]

\* TranscriptionProxy.onMeetingBaas(eventType, handler)
OnMeetingBaas(key, behaviour) ==
  /\ Running
  /\ meetingBaasHandlers[key] # behaviour
  /\ meetingBaasHandlers' = [meetingBaasHandlers EXCEPT ![key] = behaviour]
  /\ UNCHANGED <<config, flags, sockets, lastSpeaker, audioBuffers, client, process,
                 audioObs, teardownObs, webhooks, lastWebhook, webhookRepeated,
                 response, handlerCalls, reqs, dispatchLog, speakerObs, events,
                 observerObs>>

\* POST /webhooks/meetingbaas with any body: the whole route.
WebhookRequest(body) ==
  /\ Running /\ webhooks < MaxWebhooks
  /\ webhooks' = webhooks + 1
  /\ lastWebhook' = body
  /\ webhookRepeated' = (lastWebhook = body)
  /\ response' = RouteResponse(meetingBaasHandlers, body)
  /\ meetingBaasHandlers' = meetingBaasHandlers
  /\ UNCHANGED <<reqs, dispatchLog>>
  /\ IF MissingEventType(body)
     THEN /\ handlerCalls' = <<>>
          /\ UNCHANGED <<config, flags, sockets, lastSpeaker, audioBuffers, client,
                         process, audioObs, teardownObs, speakerObs, events, observerObs>>
     ELSE /\ handlerCalls' = HandlersCalled(meetingBaasHandlers, body.event)
          /\ WebhookEffect(body)

\* `await handler(event)`: the route is suspended until the promise of an
\* asynchronous handler settles.
AwaitsNever(behaviour) == FALSE

Awaits(behaviour) == behaviour \in AsyncBehaviours

\* The keys processMeetingBaasWebhook looks up for an event type, in order.
DispatchKeys(eventType) ==
  (IF eventType \in HandlerKeys \ {"*"} THEN <<eventType>> ELSE <<>>) \o <<"*">>

LogEntry(i, what, key) == [req |-> i, what |-> what, key |-> key]

\* processMeetingBaasWebhook from its handler dispatch on, for request i and
\* the keys still to look up, up to the await that suspends it or to the
\* route's res.status(200).  The result is the log and where the request is.
RECURSIVE RunHandlers(_, _, _, _)
RunHandlers(handlers, log, i, keys) ==
  IF keys = <<>>
  THEN [log |-> Append(log, LogEntry(i, "respond", "200")), at |-> "done"]
  ELSE LET k == Head(keys)
           h == handlers[k]
           started == Append(log, LogEntry(i, "start", k))
           ended == IF h \in AsyncBehaviours THEN started
                    ELSE Append(started, LogEntry(i, "end", k))
       IN IF h = NoHandler THEN RunHandlers(handlers, log, i, Tail(keys))
          ELSE IF Awaits(h) THEN [log |-> started, at |-> k]
          ELSE RunHandlers(handlers, ended, i, Tail(keys))

\* POST /webhooks/meetingbaas with any body and handlers that may be
\* asynchronous: the route up to its first suspension.
WebhookArrives(body) ==
  /\ Running /\ webhooks < MaxWebhooks
  /\ webhooks' = webhooks + 1
  /\ lastWebhook' = body
  /\ webhookRepeated' = (lastWebhook = body)
  /\ UNCHANGED <<meetingBaasHandlers, handlerCalls>>
  /\ LET i == Len(reqs) + 1
     IN IF MissingEventType(body)
        THEN /\ reqs' = Append(reqs, [body |-> body, at |-> "done"])
             /\ dispatchLog' = Append(dispatchLog, LogEntry(i, "respond", "400"))
             /\ response' = RouteResponse(meetingBaasHandlers, body)
             /\ UNCHANGED <<config, flags, sockets, lastSpeaker, audioBuffers, client,
                            process, audioObs, teardownObs, speakerObs, events,
                            observerObs>>
        ELSE LET run == RunHandlers(meetingBaasHandlers,
                                    Append(dispatchLog, LogEntry(i, "effect", body.event)),
                                    i, DispatchKeys(body.event))
             IN /\ reqs' = Append(reqs, [body |-> body, at |-> run.at])
                /\ dispatchLog' = run.log
                /\ response' = IF run.at = "done"
                               THEN RouteResponse(meetingBaasHandlers, body)
                               ELSE response
                /\ WebhookEffect(body)

\* The promise of the handler request i awaits settles (resolved or rejected:
\* the rejection is caught and logged) and processMeetingBaasWebhook resumes.
HandlerSettled(i) ==
  /\ Running /\ i \in 1..Len(reqs) /\ reqs[i].at # "done"
  /\ LET k == reqs[i].at
         run == RunHandlers(meetingBaasHandlers,
                            Append(dispatchLog, LogEntry(i, "end", k)), i,
                            IF k = "*" THEN <<>> ELSE <<"*">>)
     IN /\ reqs' = [reqs EXCEPT ![i].at = run.at]
        /\ dispatchLog' = run.log
        /\ response' = IF run.at = "done"
                       THEN RouteResponse(meetingBaasHandlers, reqs[i].body)
                       ELSE response
  /\ UNCHANGED <<config, flags, sockets, lastSpeaker, audioBuffers, client, process,
                 audioObs, teardownObs, webhooks, lastWebhook, webhookRepeated,
                 meetingBaasHandlers, handlerCalls, speakerObs, events, observerObs>>

\* initSession's await returns and the .then of initializeTranscriptionSession
\* runs: the handle is stored and isGladiaSessionActive = success; on failure
\* handleTranscriptionError arms its 3 s timer.
InitResolved(k, ok) ==
  /\ Running /\ sess[k] = "opening"
  /\ isGladiaSessionActive' = ok
  /\ IF ok
     THEN /\ sess' = [sess EXCEPT ![k] = "open"]
          /\ streamingSession' = k
          /\ errPc' = errPc
     ELSE /\ sess' = [sess EXCEPT ![k] = "failed"]
          /\ streamingSession' = streamingSession
          /\ errPc' = [errPc EXCEPT ![k] = "timer"]
  /\ UNCHANGED <<botCreate, config, waitingForRecordingStatus, transcriptionInitialized, sockets,
                 lastSpeaker, audioBuffers, transcriptLogger, nInits, endCalls, journal, finalTranscripts,
                 loggerEnded, sigPc, isShuttingDown, exited, audioObs, teardownObs,
                 webhookObs, speakerObs, events, observerObs>>

\* callbacks.onClose of provider session s, the provider closing the stream
\* on its own while the session is open: the callback logs the closure.
ProviderClosed(s) ==
  /\ Running /\ sess[s] = "open"
  /\ sess' = [sess EXCEPT ![s] = "lost"]
  /\ UNCHANGED <<config, flags, sockets, lastSpeaker, audioBuffers, streamingSession,
                 transcriptLogger, nInits, endCalls, journal, finalTranscripts,
                 loggerEnded, process, audioObs, teardownObs, webhookObs, speakerObs,
                 events, observerObs>>

\* The close handler's test `this.meetingBaasClients.size === 0`, after the
\* closed socket has been deleted from the set.
NoClientsLeftAlways(clients) == TRUE

NoClientsLeft(clients) == clients = {}

\* ws.on("close") of a socket, by its role.
CloseEvent(c) ==
  /\ Running /\ conn[c] \in {"pending", "ingress", "bot"}
  /\ conn' = [conn EXCEPT ![c] = "closed"]
  /\ closeCalled' = closeCalled \ {c}
  /\ botClient' = IF conn[c] = "bot" THEN 0 ELSE botClient
  /\ meetingBaasClients' = IF conn[c] = "ingress" THEN meetingBaasClients \ {c}
                           ELSE meetingBaasClients
  /\ IF conn[c] = "ingress" /\ NoClientsLeft(meetingBaasClients \ {c})
     THEN /\ saves' = SavesAfterSave
          /\ wav' = WavAfterSave
          /\ isGladiaSessionActive' = FALSE
          /\ transcriptionInitialized' = FALSE
          /\ waitingForRecordingStatus' = (mode # "Local")
          /\ IF isGladiaSessionActive
             THEN IF streamingSession # 0
                  THEN /\ endCalls' = endCalls \cup
                              {[s |-> streamingSession, owner |-> "close", k |-> 0]}
                       /\ sess' = [sess EXCEPT ![streamingSession] = "closing"]
                       /\ closeCount' = [closeCount EXCEPT ![streamingSession] = Min(@ + 1, 2)]
                       /\ UNCHANGED <<transcriptLogger, loggerEnded, loggerEnds>>
                  ELSE /\ transcriptLogger' = 0
                       /\ loggerEnded' = LoggerEndedAfter
                       /\ loggerEnds' = LoggerEndsAfter
                       /\ UNCHANGED <<endCalls, sess, closeCount>>
             ELSE UNCHANGED <<endCalls, sess, closeCount, transcriptLogger, loggerEnded,
                              loggerEnds>>
     ELSE UNCHANGED <<saves, wav, flags, endCalls, sess, closeCount, transcriptLogger,
                      loggerEnded, loggerEnds>>
  /\ UNCHANGED <<config, lastSpeaker, audioBuffers, streamingSession, nInits, journal, finalTranscripts,
                 sessionFirst, process, audioObs, webhookObs, speakerObs, events, observerObs>>

\* streamingSession.close() settles and endSession continues: the handle and
\* the logger are dropped; a shutdown() waiting on it finishes and its caller
\* exits the process.
EndResolved(call) ==
  /\ Running /\ call \in endCalls
  /\ endCalls' = endCalls \ {call}
  /\ sess' = [sess EXCEPT ![call.s] = "closed"]
  /\ streamingSession' = 0
  /\ transcriptLogger' = 0
  /\ loggerEnded' = LoggerEndedAfter
  /\ loggerEnds' = LoggerEndsAfter
  /\ IF call.owner = "close"
     THEN UNCHANGED <<isGladiaSessionActive, closeCalled, exited>>
     ELSE ShutdownFinish(IF call.owner = "sigint" THEN "0" ELSE "1", {})
  /\ UNCHANGED <<botCreate, config, waitingForRecordingStatus, transcriptionInitialized, conn,
                 meetingBaasClients, botClient, lastSpeaker, audioBuffers, nInits,
                 journal, finalTranscripts, errPc, sigPc, isShuttingDown, audioObs, saves, closeCount, wav, sessionFirst,
                 webhookObs, speakerObs, events, observerObs>>

\* The guard of the SIGINT handler: `if (isShuttingDown) return`.
ShutdownInProgress(flag) == flag

\* process.on("SIGINT") up to its first await
SigintEffect ==
  /\ Running
  /\ IF ShutdownInProgress(isShuttingDown)
     THEN UNCHANGED <<isShuttingDown, sigPc>>
     ELSE /\ isShuttingDown' = TRUE
          /\ sigPc' = "pre"
  /\ UNCHANGED <<botCreate, config, flags, sockets, lastSpeaker, audioBuffers, client, errPc, exited,
                 audioObs, teardownObs, webhookObs, speakerObs, events, botRelay, firstFrames>>

Sigint == SigintEffect /\ UNCHANGED <<sigintAt, sigints>>

\* The same handler, with the state the accepted signal found recorded.
SigintLogged ==
  /\ SigintEffect
  /\ sigintAt' = IF isShuttingDown THEN sigintAt
                 ELSE [seen |-> TRUE,
                       streaming |-> /\ isGladiaSessionActive /\ streamingSession # 0
                                     /\ meetingBaasClients # {},
                       s |-> streamingSession,
                       logger |-> transcriptLogger,
                       ingress |-> OpenClients]
  /\ UNCHANGED sigints

\* The same handler, with the deliveries and the shutdown sequences it starts
\* counted.
SigintCounted ==
  /\ sigints.delivered < MaxSigints
  /\ SigintEffect
  /\ sigints' = [sigints EXCEPT !.delivered = @ + 1,
                                !.started = IF ShutdownInProgress(isShuttingDown)
                                            THEN @ ELSE @ + 1]
  /\ UNCHANGED sigintAt

\* process.on("SIGINT") of the entry point with compare mode (src/index.ts),
\* up to its first await: every delivery starts the sequence bot disconnect,
\* multi-proxy shutdown, proxy.shutdown(); pre counts the invocations that
\* have not yet reached proxy.shutdown().
SigintCompareEntry ==
  /\ Running /\ sigints.delivered < MaxSigints
  /\ sigints' = [delivered |-> sigints.delivered + 1,
                 started |-> sigints.started + 1,
                 pre |-> sigints.pre + 1]
  /\ UNCHANGED <<config, flags, sockets, lastSpeaker, audioBuffers, client, process,
                 audioObs, teardownObs, webhookObs, speakerObs, events, botRelay,
                 firstFrames, sigintAt>>

\* One invocation of that handler reaches `await proxy.shutdown()`.
SigintCompareShutdown ==
  /\ Running /\ sigints.pre > 0
  /\ sigints' = [sigints EXCEPT !.pre = @ - 1]
  /\ ShutdownBegin("sigint", 0, "0", {})
  /\ UNCHANGED <<botCreate, config, waitingForRecordingStatus, transcriptionInitialized, conn,
                 meetingBaasClients, botClient, lastSpeaker, audioBuffers, nInits,
                 journal, finalTranscripts, errPc, sigPc, isShuttingDown, audioObs,
                 webhookObs, speakerObs, events, botRelay, firstFrames, sigintAt>>

\* the SIGINT handler reaches `await proxy.shutdown()`
SigintShutdown ==
  /\ Running /\ sigPc = "pre"
  /\ sigPc' = "await"
  /\ ShutdownBegin("sigint", 0, "0", {})
  /\ UNCHANGED <<botCreate, config, waitingForRecordingStatus, transcriptionInitialized, conn,
                 meetingBaasClients, botClient, lastSpeaker, audioBuffers, nInits,
                 journal, finalTranscripts, errPc, isShuttingDown, audioObs, webhookObs, speakerObs,
                 events, observerObs>>

\* the setTimeout callback of handleTranscriptionError
ErrorTimerFire(k) ==
  /\ Running /\ errPc[k] = "timer"
  /\ errPc' = [errPc EXCEPT ![k] = "await"]
  /\ meetingBaasClients' = {}
  /\ botClient' = 0
  /\ ShutdownBegin("error", k, "1",
                   {c \in meetingBaasClients : conn[c] = "ingress"}
                     \cup (IF botClient # 0 THEN {botClient} ELSE {}))
  /\ UNCHANGED <<botCreate, config, waitingForRecordingStatus, transcriptionInitialized, conn,
                 lastSpeaker, audioBuffers, nInits, journal, finalTranscripts, sigPc, isShuttingDown,
                 audioObs, webhookObs, speakerObs, events, observerObs>>

\* Speaker branch of the ingress message handler: the test guarding the
\* update of lastSpeaker and the call of audioVisualizer.updateSpeaker.
ShouldUpdateSpeakerAnyEdge(last, name, isSpeaking) ==
  last = NoSpeaker \/ last # name

ShouldUpdateSpeaker(last, name, isSpeaking) ==
  isSpeaking /\ (last = NoSpeaker \/ last # name)

\* ws.on("message") of an ingress socket, payload a JSON array whose first
\* element has name and isSpeaking.
SpeakerFrameEffect(c, name, isSpeaking) ==
  /\ Running /\ conn[c] = "ingress"
  /\ lastSpeaker' = IF ShouldUpdateSpeaker(lastSpeaker, name, isSpeaking) THEN name
                    ELSE lastSpeaker
  /\ botRelay' = RelayedToBot(botRelay, "speaker")
  /\ UNCHANGED <<config, flags, sockets, audioBuffers, client, process, audioObs,
                 teardownObs, webhookObs, events,
                 firstFrames, sigintAt, sigints>>

\* The same frame without the observer's log.
SpeakerFrameQuiet(c, name, isSpeaking) ==
  SpeakerFrameEffect(c, name, isSpeaking) /\ UNCHANGED speakerObs

\* The same frame with the frames and the updateSpeaker calls logged.
SpeakerFrame(c, name, isSpeaking) ==
  /\ Len(speakerFrames) < MaxSpeakerFrames
  /\ SpeakerFrameEffect(c, name, isSpeaking)
  /\ speakerFrames' = Append(speakerFrames, [name |-> name, isSpeaking |-> isSpeaking])
  /\ speakerNotifs' = IF ShouldUpdateSpeaker(lastSpeaker, name, isSpeaking)
                      THEN Append(speakerNotifs, name)
                      ELSE speakerNotifs

\* Payloads of an ingress message after the first: bytes that do not parse
\* as JSON, a speaker array ([{name, isSpeaking, ...}]), a JSON value of
\* another shape ({} or a registration object), and a JSON array whose first
\* element is not an object ([12]).
PayloadKinds == {"pcm", "speaker", "jsonObject", "jsonPrimitiveArray"}

\* The branch of the ingress message handler a payload takes.  JSON.parse
\* throws on bytes that are no JSON; `"name" in jsonData[0]` throws a
\* TypeError when the first element is a primitive; both exceptions are
\* caught by the same catch, which is the audio branch.  A speaker array
\* takes the speaker branch and any other JSON value is logged only.
Classify(kind) ==
  IF kind = "pcm" THEN "audio"
  ELSE IF kind = "jsonPrimitiveArray" THEN "audio"
  ELSE IF kind = "speaker" THEN "speaker"
  ELSE "logged"

\* Byte length of the payload the model sends for a kind: "{}" and one
\* sample have 2 bytes, "[12]" has 4; for a speaker array no length is kept.
PayloadBytes(kind) ==
  IF kind = "jsonPrimitiveArray" THEN 4 ELSE IF kind = "speaker" THEN 0 ELSE FixedFrameBytes

\* ws.on("message") of an ingress socket for a payload of any kind, with the
\* message appended to the arrival log whatever branch it takes.  A speaker
\* array names speaker A speaking.
IngressMessage(c, kind) ==
  IF Classify(kind) = "audio"
  THEN AudioBranch(c, PayloadBytes(kind), kind)
  ELSE /\ Running /\ conn[c] = "ingress" /\ Len(arrivals) < MaxFrames
       /\ arrivals' = Append(arrivals, [conn |-> c,
                                         gateOpen |-> ~waitingForRecordingStatus,
                                         active |-> isGladiaSessionActive,
                                         bytes |-> PayloadBytes(kind), kind |-> kind])
       /\ lastSpeaker' = IF Classify(kind) = "speaker"
                             /\ ShouldUpdateSpeaker(lastSpeaker, "A", TRUE)
                          THEN "A" ELSE lastSpeaker
       /\ botRelay' = RelayedToBot(botRelay, kind)
       /\ UNCHANGED <<config, flags, sockets, audioBuffers, client, process,
                      chunkCalls, sentAudio, inFlight, sendResults, teardownObs,
                      webhookObs, speakerObs, events, firstFrames, sigintAt, sigints>>

\* event.speaker?.toString() as passed to TranscriptLogger.logTranscript
SpeakerToString(n) == IF n = -1 THEN "absent" ELSE IF n = 0 THEN "0" ELSE "1"

\* The speaker argument of logTranscript in callbacks.onTranscript; last is
\* the proxy's lastSpeaker when the event arrives.
JournalSpeakerSnapshot(prov, last) == IF last = NoSpeaker THEN "absent" ELSE last

JournalSpeaker(prov, last) == SpeakerToString(prov)

\* What callbacks.onTranscript does with one event, in order: the journal
\* append when a logger is set, then the registered callback (observer, then
\* the bot socket when it is open).
OnTranscriptEffects(hasLogger, botOpen) ==
  (IF hasLogger THEN <<"journal">> ELSE <<>>)
    \o <<"observer">>
    \o (IF botOpen THEN <<"bot">> ELSE <<>>)

\* The sockets that registered as bot (setupBotClient) and are open.
RegisteredBotsOpen == {c \in Conns : conn[c] = "bot" /\ c \notin closeCalled}

\* Transcript texts are sequences of characters.
Texts == {<<>>, <<" ">>, <<"a">>, <<"b">>}
FixedText == <<"a">>

\* text.trim() is the empty string: no character but white space.
IsBlank(text) == \A i \in 1..Len(text) : text[i] = " "

\* TranscriptLogger.logTranscript: the test guarding finalTranscripts.push.
KeptAsFinalAnyText(text, isFinal) == isFinal

KeptAsFinal(text, isFinal) == isFinal /\ ~IsBlank(text)

\* Array.prototype.join(" ") on a sequence of texts.
RECURSIVE JoinSpace(_)
JoinSpace(texts) ==
  IF texts = <<>> THEN <<>>
  ELSE IF Len(texts) = 1 THEN texts[1]
  ELSE texts[1] \o <<" ">> \o JoinSpace(Tail(texts))

\* TranscriptLogger.getFinalTranscriptText
GetFinalTranscriptText(finals) == JoinSpace(finals)

\* callbacks.onTranscript of provider session s for an event with
\* event.speaker = prov, event.text || "" = text, event.isFinal || false =
\* isFinal.  observerThrows: audioVisualizer.showTranscription throws;
\* botThrows: botClient.send throws.  Neither call is inside a try block, so
\* an exception leaves the callback at the call that raised it.
OnTranscriptDelivery(s, prov, text, isFinal, observerThrows, botThrows) ==
  /\ Running /\ sess[s] \in {"open", "closing"}
  /\ LET hasLogger == transcriptLogger # 0
         botIsOpen == botClient # 0 /\ conn[botClient] = "bot" /\ botClient \notin closeCalled
         botOpen == botIsOpen /\ ~observerThrows
     IN /\ journal' = IF hasLogger
                      THEN [journal EXCEPT ![transcriptLogger] =
                              Append(@, [speaker |-> JournalSpeaker(prov, lastSpeaker),
                                         text |-> text, isFinal |-> isFinal])]
                      ELSE journal
        /\ finalTranscripts' = IF hasLogger /\ KeptAsFinal(text, isFinal)
                               THEN [finalTranscripts EXCEPT ![transcriptLogger] =
                                       Append(@, text)]
                               ELSE finalTranscripts
        /\ events' = Append(events,
                        [s |-> s, prov |-> prov, last |-> lastSpeaker,
                         logger |-> transcriptLogger,
                         bots |-> RegisteredBotsOpen,
                         sentTo |-> IF botOpen /\ ~botThrows THEN {botClient} ELSE {},
                         target |-> IF botIsOpen THEN {botClient} ELSE {},
                         observerThrew |-> observerThrows,
                         botThrew |-> botOpen /\ botThrows,
                         idx |-> IF hasLogger THEN Len(journal[transcriptLogger]) + 1 ELSE 0,
                         effects |-> OnTranscriptEffects(hasLogger, botOpen)])
  /\ UNCHANGED <<config, flags, sockets, lastSpeaker, audioBuffers, streamingSession,
                 transcriptLogger, sess, nInits, endCalls, loggerEnded, process,
                 audioObs, teardownObs, webhookObs, speakerObs, observerObs>>

OnTranscript(s, prov, text, isFinal) ==
  OnTranscriptDelivery(s, prov, text, isFinal, FALSE, FALSE)

\* A final provider event with a fixed text and no speaker, whose delivery
\* to the observer or to the bot socket may throw.
TranscriptDelivery(s, observerThrows, botThrows) ==
  /\ Len(events) < MaxTranscripts
  /\ OnTranscriptDelivery(s, -1, FixedText, TRUE, observerThrows, botThrows)

\* A final provider event with a fixed text, any speaker.
Transcript(s, prov) ==
  /\ Len(events) < MaxTranscripts
  /\ OnTranscript(s, prov, FixedText, TRUE)

\* A provider event without speaker, any text, final or interim.
TranscriptText(s, text, isFinal) ==
  /\ Len(events) < MaxEntries
  /\ OnTranscript(s, -1, text, isFinal)

\* index.ts runRemoteMode: `await meetingBaasClient.connect(...)` returns;
\* when the bot could not be created the process exits with code 1.
BotCreateResolved(connected) ==
  /\ Running /\ botCreate = "pending"
  /\ botCreate' = IF connected THEN "created" ELSE "failed"
  /\ exited' = IF connected THEN exited ELSE "1"
  /\ UNCHANGED <<config, flags, sockets, lastSpeaker, audioBuffers, client, errPc, sigPc,
                 isShuttingDown, audioObs, teardownObs, webhookObs, speakerObs, events, observerObs>>

GateEvent == [event |-> "bot.status_change",
              status |-> StatusObject("in_call_not_recording")]
EndedEvent == [event |-> "meeting.ended", status |-> NoStatus]

Lifecycle ==
  \/ \E c \in Conns : Connect(c)
  \/ \E c \in Conns, r \in BOOLEAN : FirstMessage(c, r)
  \/ \E k \in SessIds, ok \in BOOLEAN : InitResolved(k, ok)
  \/ \E c \in Conns : CloseEvent(c)
  \/ \E call \in endCalls : EndResolved(call)
  \/ Sigint
  \/ SigintShutdown
  \/ \E k \in SessIds : ErrorTimerFire(k)

\* Sockets, audio, the two webhook events the orchestrator's table names,
\* provider completions and the two teardown callers.
Next ==
  \/ Lifecycle
  \/ \E c \in Conns : PcmFrame(c)
  \/ \E f \in inFlight : SendSettled(f)
  \/ \E ev \in {GateEvent, EndedEvent} : Webhook(ev)

Spec == Init /\ [][Next]_vars

\* Every webhook event kind, with the request log; no audio.
NextWebhook ==
  \/ Lifecycle
  \/ \E ev \in WebhookEvents : WebhookLogged(ev)

SpecWebhook == Init /\ [][NextWebhook]_vars

\* The process from start to exit: remote bot creation, sockets, the gate
\* webhook, provider completions, SIGINT and the error teardown.
NextProcess ==
  \/ Lifecycle
  \/ \E connected \in BOOLEAN : BotCreateResolved(connected)
  \/ Webhook(GateEvent)

SpecProcess == Init /\ [][NextProcess]_vars

\* Sockets whose first message may be a PCM frame, audio frames and the gate
\* webhook.
NextIngress ==
  \/ Lifecycle
  \/ \E c \in Conns : FirstMessagePcm(c)
  \/ \E c \in Conns : PcmFrame(c)
  \/ \E f \in inFlight : SendSettled(f)
  \/ Webhook(GateEvent)

SpecIngress == Init /\ [][NextIngress]_vars

\* Sockets, the gate webhook, provider completions, the error teardown and
\* SIGINT with the state it found recorded.
NextSigint ==
  \/ \E c \in Conns : Connect(c)
  \/ \E c \in Conns, r \in BOOLEAN : FirstMessage(c, r)
  \/ \E k \in SessIds, ok \in BOOLEAN : InitResolved(k, ok)
  \/ \E c \in Conns : CloseEvent(c)
  \/ \E call \in endCalls : EndResolved(call)
  \/ \E k \in SessIds : ErrorTimerFire(k)
  \/ Webhook(GateEvent)
  \/ SigintLogged
  \/ SigintShutdown

SpecSigint == Init /\ [][NextSigint]_vars

\* Sockets, the gate webhook, provider completions and provider transcripts
\* of any text, final or interim.
NextJournal ==
  \/ \E c \in Conns : Connect(c)
  \/ \E c \in Conns, r \in BOOLEAN : FirstMessage(c, r)
  \/ \E k \in SessIds, ok \in BOOLEAN : InitResolved(k, ok)
  \/ \E c \in Conns : CloseEvent(c)
  \/ \E call \in endCalls : EndResolved(call)
  \/ Webhook(GateEvent)
  \/ \E s \in SessIds, text \in Texts, isFinal \in BOOLEAN : TranscriptText(s, text, isFinal)

SpecJournal == Init /\ [][NextJournal]_vars

\* Sockets, PCM frames of several lengths, the gate webhook, provider
\* completions and the teardown callers: every path that writes the recording.
NextWav ==
  \/ Lifecycle
  \/ \E c \in Conns, n \in FrameSizes : PcmFrameSized(c, n)
  \/ Webhook(GateEvent)

SpecWav == Init /\ [][NextWav]_vars

\* The webhook route with handlers that may be asynchronous, and the sockets
\* and provider open that the gate event acts on.
DispatchBodies == {GateEvent, EndedEvent, [event |-> "", status |-> NoStatus]}

NextDispatch ==
  \/ \E c \in Conns : Connect(c)
  \/ \E c \in Conns, r \in BOOLEAN : FirstMessage(c, r)
  \/ \E k \in SessIds, ok \in BOOLEAN : InitResolved(k, ok)
  \/ \E k \in HandlerKeys, b \in HandlerBehaviours \cup AsyncBehaviours : OnMeetingBaas(k, b)
  \/ \E body \in DispatchBodies : WebhookArrives(body)
  \/ \E i \in 1..MaxWebhooks : HandlerSettled(i)

SpecDispatch == Init /\ [][NextDispatch]_vars

\* Sockets, audio, the gate webhook and a provider that may close the stream
\* on its own.
NextProvider ==
  \/ Lifecycle
  \/ \E c \in Conns : PcmFrame(c)
  \/ \E f \in inFlight : SendSettled(f)
  \/ Webhook(GateEvent)
  \/ \E s \in SessIds : ProviderClosed(s)

SpecProvider == Init /\ [][NextProvider]_vars

\* Sockets, audio whose sends may be rejected by the transport, and the gate
\* webhook.
NextSend ==
  \/ Lifecycle
  \/ \E c \in Conns : PcmFrame(c)
  \/ \E f \in inFlight, rejected \in BOOLEAN : SendSettledWith(f, rejected)
  \/ Webhook(GateEvent)

SpecSend == Init /\ [][NextSend]_vars

\* The process with the scheduling the event loop guarantees: a SIGINT
\* handler that has started reaches proxy.shutdown(), and an armed error timer
\* fires.  Nothing makes the provider acknowledge a close.
NextClose ==
  \/ Lifecycle
  \/ Webhook(GateEvent)

SpecCloseFair ==
  /\ Init /\ [][NextClose]_vars
  /\ WF_vars(SigintShutdown)
  /\ \A k \in SessIds : WF_vars(ErrorTimerFire(k))

\* The entry point with the guard flag: sockets, the gate webhook, provider
\* completions and counted SIGINT deliveries.
NextInterrupt ==
  \/ \E c \in Conns : Connect(c)
  \/ \E c \in Conns, r \in BOOLEAN : FirstMessage(c, r)
  \/ \E k \in SessIds, ok \in BOOLEAN : InitResolved(k, ok)
  \/ \E c \in Conns : CloseEvent(c)
  \/ \E call \in endCalls : EndResolved(call)
  \/ \E k \in SessIds : ErrorTimerFire(k)
  \/ Webhook(GateEvent)
  \/ SigintCounted
  \/ SigintShutdown

SpecInterrupt == Init /\ [][NextInterrupt]_vars

\* The entry point with compare mode, whose SIGINT handler has no guard flag.
NextInterruptCompare ==
  \/ \E c \in Conns : Connect(c)
  \/ \E c \in Conns, r \in BOOLEAN : FirstMessage(c, r)
  \/ \E k \in SessIds, ok \in BOOLEAN : InitResolved(k, ok)
  \/ \E c \in Conns : CloseEvent(c)
  \/ \E call \in endCalls : EndResolved(call)
  \/ \E k \in SessIds : ErrorTimerFire(k)
  \/ Webhook(GateEvent)
  \/ SigintCompareEntry
  \/ SigintCompareShutdown

SpecInterruptCompare == Init /\ [][NextInterruptCompare]_vars

\* Sockets, the gate webhook, provider completions and provider transcripts
\* whose delivery to a subscriber may throw.
NextSubscribers ==
  \/ Lifecycle
  \/ Webhook(GateEvent)
  \/ \E s \in SessIds, ot \in BOOLEAN, bt \in BOOLEAN : TranscriptDelivery(s, ot, bt)

SpecSubscribers == Init /\ [][NextSubscribers]_vars

\* Sockets, ingress messages of every payload kind, the gate webhook and
\* provider completions.
NextClassify ==
  \/ Lifecycle
  \/ \E c \in Conns, kind \in PayloadKinds : IngressMessage(c, kind)
  \/ \E f \in inFlight : SendSettled(f)
  \/ Webhook(GateEvent)

SpecClassify == Init /\ [][NextClassify]_vars

\* The webhook route with well-formed and malformed bodies and registered
\* handlers.
HttpBodies == MalformedBodies \cup {GateEvent, EndedEvent}

NextHttp ==
  \/ Lifecycle
  \/ \E k \in HandlerKeys, b \in HandlerBehaviours : OnMeetingBaas(k, b)
  \/ \E body \in HttpBodies : WebhookRequest(body)

SpecHttp == Init /\ [][NextHttp]_vars


\* Sockets and speaker-metadata frames, with the observer's log.
NextSpeaker ==
  \/ Lifecycle
  \/ \E c \in Conns, n \in Names, sp \in BOOLEAN : SpeakerFrame(c, n, sp)

SpecSpeaker == Init /\ [][NextSpeaker]_vars

\* Sockets, the gate webhook, speaker frames and provider transcripts.
NextTranscript ==
  \/ Lifecycle
  \/ Webhook(GateEvent)
  \/ \E c \in Conns, n \in Names, sp \in BOOLEAN : SpeakerFrameQuiet(c, n, sp)
  \/ \E s \in SessIds, prov \in ProviderSpeakers : Transcript(s, prov)

SpecTranscript == Init /\ [][NextTranscript]_vars

\* ---------------------------------------------------------------- claims
ChunkIds == {chunkCalls[i] : i \in 1..Len(chunkCalls)}
LiveSessions == {s \in SessIds : sess[s] \in {"opening", "open"}}

\* C1: every PCM frame handed to gladiaClient.sendAudioChunk arrived while
\* the startup gate was open (waitingForRecordingStatus was false).
C1_GateSafety == \A f \in ChunkIds : arrivals[f].gateOpen

\* C2: at most one provider streaming session is open or being opened.
C2_AtMostOneLiveSession == Cardinality(LiveSessions) <= 1

\* C3: within one session each teardown action runs at most once: the
\* recording is written once, close() is called once on a provider session,
\* a journal is finalized once.
C3_TeardownOnce ==
  /\ saves <= 1
  /\ \A s \in SessIds : closeCount[s] <= 1 /\ loggerEnds[s] <= 1

\* C4: the frames passed to streamingSession.sendAudio appear in arrival
\* order (frame numbers are arrival positions, so the send stream is a
\* subsequence of the arrival sequence).
C4_SendOrder ==
  /\ \A i, j \in 1..Len(sentAudio) : i < j => sentAudio[i].f < sentAudio[j].f
  /\ \A i \in 1..Len(sentAudio) : sentAudio[i].f \in 1..Len(arrivals)

\* C4 witness: two frames from different ingress connections were sent, the
\* second while the send of the first had not settled.
C4_Witness ==
  /\ Len(sentAudio) = 2
  /\ arrivals[sentAudio[1].f].conn # arrivals[sentAudio[2].f].conn
  /\ sentAudio[1].f \in inFlight

\* C6: a frame that was dropped at its arrival (no session reported active:
\* the gate was still closed or initSession had not resolved) is never handed
\* to the provider afterwards.
C6_DroppedNeverForwarded ==
  \A f \in 1..Len(arrivals) : ~arrivals[f].active => f \notin ChunkIds

\* C6 witness: a frame arrived with the gate closed and was dropped, and a
\* later frame was forwarded once the session was active.
C6_Witness ==
  \E f, g \in 1..Len(arrivals) :
    /\ f < g
    /\ ~arrivals[f].gateOpen /\ ~arrivals[f].active
    /\ g \in ChunkIds /\ f \notin ChunkIds


\* The speaker-change notifications a frame sequence calls for, starting from
\* current speaker cur: one per frame that is speaking and names another
\* speaker than the current one.
RECURSIVE RisingEdges(_, _)
RisingEdges(frames, cur) ==
  IF frames = <<>> THEN <<>>
  ELSE LET f == Head(frames)
       IN IF f.isSpeaking /\ f.name # cur
          THEN <<f.name>> \o RisingEdges(Tail(frames), f.name)
          ELSE RisingEdges(Tail(frames), cur)

\* C7: lastSpeaker changes and updateSpeaker is called only on a rising
\* speaking edge: the notifications are exactly the rising edges of the
\* speaker frames received, and lastSpeaker is the last of them.
C7_RisingEdgeOnly ==
  /\ speakerNotifs = RisingEdges(speakerFrames, NoSpeaker)
  /\ lastSpeaker = IF speakerNotifs = <<>> THEN NoSpeaker
                   ELSE speakerNotifs[Len(speakerNotifs)]

\* C7 witness: A(speaking), A(stopped), B(speaking) gave two notifications.
C7_Witness ==
  /\ speakerFrames = <<[name |-> "A", isSpeaking |-> TRUE],
                       [name |-> "A", isSpeaking |-> FALSE],
                       [name |-> "B", isSpeaking |-> TRUE]>>
  /\ speakerNotifs = <<"A", "B">>
  /\ lastSpeaker = "B"


Pos(seq, x) == CHOOSE i \in 1..Len(seq) : seq[i] = x
Has(seq, x) == \E i \in 1..Len(seq) : seq[i] = x
Journaled == {i \in 1..Len(events) : events[i].logger # 0}

\* C5: for every transcript event delivered to the observer or the bot
\* socket, the journal append of that event was started before the delivery.
C5_JournalBeforeDelivery ==
  \A i \in 1..Len(events) :
    \A d \in {"observer", "bot"} :
      Has(events[i].effects, d) =>
        /\ Has(events[i].effects, "journal")
        /\ Pos(events[i].effects, "journal") < Pos(events[i].effects, d)

C9_WebhookIdempotent ==
  \A ev \in WebhookEvents :
    ProcessWebhook(ProcessWebhook(Machine, ev), ev) = ProcessWebhook(Machine, ev)

\* C9 witness: in Remote mode the gate-opening event was posted twice in a
\* row; the gate is open and one initSession was requested.
C9_Witness ==
  /\ mode = "Remote"
  /\ webhookRepeated /\ webhooks = 2
  /\ lastWebhook = [event |-> "bot.status_change",
                    status |-> StatusString("in_call_not_recording")]
  /\ ~waitingForRecordingStatus /\ nInits = 1

\* The event is bot.status_change with code in_call_not_recording, the code
\* given as the status string or as the code of a status object.
IsGateEvent(ev) ==
  /\ ev.event = "bot.status_change"
  /\ \/ ev.status.isObject /\ ev.status.code = "in_call_not_recording"
     \/ ~ev.status.isObject /\ ev.status.str = "in_call_not_recording"

\* C10: a webhook request other than bot.status_change/in_call_not_recording
\* leaves the gate flag, transcriptionInitialized, the provider session and
\* the connections unchanged; that event, in either status shape, opens the
\* gate when the proxy is waiting for it.
C10_OnlyGateEventActs ==
  [][webhooks' # webhooks =>
       /\ ~IsGateEvent(lastWebhook') =>
            UNCHANGED <<waitingForRecordingStatus, transcriptionInitialized,
                        isGladiaSessionActive, streamingSession, sess, nInits,
                        endCalls, conn, closeCalled, meetingBaasClients, botClient>>
       /\ IsGateEvent(lastWebhook') => ~waitingForRecordingStatus'
    ]_vars

\* C10 witness: meeting.ended was processed while a session was streaming
\* with an ingress connected, and the session is still streaming.
C10_Witness ==
  /\ webhooks > 0 /\ lastWebhook = EndedEvent
  /\ isGladiaSessionActive /\ streamingSession # 0
  /\ meetingBaasClients # {}


\* C11: the step that processes meeting.ended or bot.recording_permission_denied
\* starts the drain: every ingress socket has close() called by the server
\* and the provider session, if there is one, is being closed.
C11_EndedDrains ==
  [][(webhooks' # webhooks
        /\ lastWebhook'.event \in {"meeting.ended", "bot.recording_permission_denied"})
       => /\ \A c \in meetingBaasClients : c \in closeCalled'
          /\ streamingSession # 0 => sess'[streamingSession] \in {"closing", "closed"}
    ]_vars


\* C12: a request whose body has no event type is answered 400 with
\* {error, details}, calls no registered handler and leaves the gate flag,
\* transcriptionInitialized and the provider session unchanged.
C12_MalformedRejected ==
  [][(webhooks' # webhooks /\ lastWebhook'.event \in {"undefined", ""})
       => /\ response'.status = 400
          /\ response'.body = {"error", "details"}
          /\ handlerCalls' = <<>>
          /\ UNCHANGED <<waitingForRecordingStatus, transcriptionInitialized,
                         isGladiaSessionActive, streamingSession, sess, nInits,
                         transcriptLogger>>
    ]_vars

\* C12 witness: in Remote mode, with the wildcard handler registered and the
\* proxy waiting for the gate, a body without event but with the gate status
\* was answered 400 and the proxy still waits.
C12_Witness ==
  /\ mode = "Remote" /\ meetingBaasHandlers["*"] = "returns"
  /\ lastWebhook = [event |-> "undefined",
                    status |-> StatusObject("in_call_not_recording")]
  /\ response.status = 400 /\ handlerCalls = <<>>
  /\ waitingForRecordingStatus /\ nInits = 0 /\ meetingBaasClients # {}

\* C13: a well-formed request for which a called handler throws or rejects
\* is answered 500.
C13_HandlerErrorIs500 ==
  [][(webhooks' # webhooks
        /\ \E i \in 1..Len(handlerCalls') : meetingBaasHandlers[handlerCalls'[i]] = "throws")
       => response'.status = HttpServerError
    ]_vars


\* C14: once a provider open has failed, the process does not exit with code
\* zero: whatever happens while the error timer is armed, the exit is the
\* non-zero exit of the error teardown.
C14_InitFailureExitsNonZero ==
  (\E k \in SessIds : sess[k] = "failed") => exited # "0"


\* C15: the process exits with a non-zero code only after a provider init
\* failure (configuration errors end the process before the proxy exists).
C15_NonZeroOnlyOnInitFailure ==
  exited = "1" => \E k \in SessIds : sess[k] = "failed"


\* C16: every open socket that registered as bot is sent each transcript
\* event.
C16_EveryBotReceives ==
  \A i \in 1..Len(events) : events[i].bots \subseteq events[i].sentTo


\* C17: no message received from an audio ingress connection (raw PCM or
\* speaker metadata) is sent to a bot-registered connection.
C17_NoIngressRelayToBot == botRelay = {}


\* C18: every raw PCM frame a peer sends on an audio connection while the
\* gate is open and the provider handle is open is handed to the provider,
\* the first frame of the connection included.
C18_PcmForwardedWhenOpen ==
  /\ \A r \in firstFrames : r.gateOpen /\ r.handleOpen => r.forwarded
  /\ \A f \in 1..Len(arrivals) :
       arrivals[f].gateOpen /\ arrivals[f].active => f \in ChunkIds


\* C19: when a socket becomes an audio ingress while a provider session is
\* streaming, it is added to meetingBaasClients and nothing else of the
\* session changes: no initSession, no endSession, the flags, lastSpeaker,
\* the journal and its logger stay as they are.
C19_ReconnectOnlyAdds ==
  [][\A c \in Conns :
       (isGladiaSessionActive /\ streamingSession # 0
          /\ conn[c] = "pending" /\ conn'[c] = "ingress")
         => /\ meetingBaasClients' = meetingBaasClients \cup {c}
            /\ UNCHANGED <<waitingForRecordingStatus, transcriptionInitialized,
                           isGladiaSessionActive, streamingSession, sess, nInits,
                           endCalls, lastSpeaker, journal, transcriptLogger,
                           loggerEnded>>
    ]_vars

\* C19 witness: a second ingress socket joined, by a PCM first message, while
\* the session was streaming; both are connected to that session, the only
\* one ever opened.
C19_Witness ==
  /\ Cardinality(meetingBaasClients) = 2
  /\ \E r \in firstFrames : r.handleOpen /\ r.conn \in meetingBaasClients
  /\ isGladiaSessionActive /\ streamingSession = 1 /\ sess[1] = "open"
  /\ nInits = 1 /\ endCalls = {}


\* C20: when SIGINT was accepted while a session was streaming, the process
\* exits with code zero, and at the exit the ingress sockets of that moment
\* are closed or closing, the provider session is closed and its journal is
\* finalized.
C20_SigintDrains ==
  (sigintAt.seen /\ sigintAt.streaming /\ exited # "no")
    => /\ exited = "0"
       /\ \A c \in sigintAt.ingress : c \in closeCalled \/ conn[c] = "closed"
       /\ sess[sigintAt.s] = "closed"
       /\ sigintAt.logger # 0 => sigintAt.logger \in loggerEnded


\* The texts of the entries of a journal that are final, in order.
RECURSIVE FinalTexts(_)
FinalTexts(entries) ==
  IF entries = <<>> THEN <<>>
  ELSE (IF Head(entries).isFinal THEN <<Head(entries).text>> ELSE <<>>)
         \o FinalTexts(Tail(entries))

\* The texts of the entries that are final and not blank, in order.
RECURSIVE FinalNonBlankTexts(_)
FinalNonBlankTexts(entries) ==
  IF entries = <<>> THEN <<>>
  ELSE (IF Head(entries).isFinal /\ \E i \in 1..Len(Head(entries).text) :
                                      Head(entries).text[i] # " "
        THEN <<Head(entries).text>> ELSE <<>>)
         \o FinalNonBlankTexts(Tail(entries))

\* C21 as stated: the final plain text of a journal is the texts of all its
\* final entries, in emission order, joined by single spaces.
C21_FullTextIsAllFinals ==
  \A k \in SessIds :
    GetFinalTranscriptText(finalTranscripts[k]) = JoinSpace(FinalTexts(journal[k]))

\* C21 amended: the final plain text of a journal is the texts of its final
\* entries that are not blank (empty or white space only), in emission order,
\* joined by single spaces; interim entries never contribute.
C21_FullTextIsNonBlankFinals ==
  \A k \in SessIds :
    GetFinalTranscriptText(finalTranscripts[k])
      = JoinSpace(FinalNonBlankTexts(journal[k]))

\* C21 witness: a journal holds a final text, a blank final text and another
\* final text, and its plain text is the two non-blank texts with one space.
C21_Witness ==
  \E k \in SessIds :
    /\ Len(journal[k]) = 3
    /\ journal[k][1].isFinal /\ journal[k][1].text = <<"a">>
    /\ journal[k][2].isFinal /\ journal[k][2].text = <<" ">>
    /\ journal[k][3].isFinal /\ journal[k][3].text = <<"b">>
    /\ GetFinalTranscriptText(finalTranscripts[k]) = <<"a", " ", "b">>


\* The byte lengths of the frames from..upTo of the arrival sequence, summed.
RECURSIVE CapturedBytes(_, _)
CapturedBytes(from, upTo) ==
  IF from > upTo THEN 0 ELSE arrivals[from].bytes + CapturedBytes(from + 1, upTo)

\* C22: the recording written at a session's close holds exactly the PCM
\* frames captured during that session, N bytes in all: the file is N + 44
\* bytes long, its RIFF length field is 36 + N and its data length field N;
\* no frame of an earlier session is in it.
C22_WavHoldsSessionAudio ==
  wav.written =>
    LET n == CapturedBytes(wav.from, wav.upTo)
       ids == [i \in 1..(wav.upTo - wav.from + 1) |-> wav.from + i - 1]
    IN /\ wav.frames = SelectSeq(ids, LAMBDA f : arrivals[f].bytes > 0)
       /\ wav.fileLen = n + 44
       /\ wav.riff = 36 + n
       /\ wav.dataLen = n


\* Positions of the dispatch log.
LogPos == 1..Len(dispatchLog)
Responded(i, before) ==
  \E r \in LogPos : r < before /\ dispatchLog[r].req = i /\ dispatchLog[r].what = "respond"

\* C23: handler executions are serialized: when a handler starts for a
\* request, the dispatch of every request that arrived earlier has completed.
C23_HandlersSerialized ==
  \A q \in LogPos :
    dispatchLog[q].what = "start" =>
      \A i \in 1..(dispatchLog[q].req - 1) : Responded(i, q)


\* C24: a 200 response is logged only after the dispatch of its request has
\* completed: the state-machine effect came first, then every handler that
\* was started for the request, the typed one before the wildcard one, each
\* finished before the next started and before the response; and the
\* effects appear in the order the requests arrived.
C24_ResponseAfterDispatch ==
  /\ \A r \in LogPos :
       (dispatchLog[r].what = "respond" /\ dispatchLog[r].key = "200") =>
         LET i == dispatchLog[r].req
             mine == {p \in LogPos : dispatchLog[p].req = i}
         IN /\ \E e \in mine : /\ dispatchLog[e].what = "effect"
                               /\ \A p \in mine : e <= p
            /\ \A p \in mine : p <= r
            /\ \A s \in mine :
                 dispatchLog[s].what = "start" =>
                   \E d \in mine :
                     /\ s < d /\ d < r
                     /\ dispatchLog[d].what = "end"
                     /\ dispatchLog[d].key = dispatchLog[s].key
                     /\ \A p \in mine : ~(s < p /\ p < d)
            /\ \A s, w \in mine :
                 (dispatchLog[s].what = "start" /\ dispatchLog[s].key # "*"
                    /\ dispatchLog[w].what = "start" /\ dispatchLog[w].key = "*") => s < w
  /\ \A p, q \in LogPos :
       (p < q /\ dispatchLog[p].what = "effect" /\ dispatchLog[q].what = "effect")
         => dispatchLog[p].req < dispatchLog[q].req
  /\ \A i \in 1..Len(reqs) :
       ~MissingEventType(reqs[i].body) =>
         \E e \in LogPos : dispatchLog[e] = [req |-> i, what |-> "effect",
                                             key |-> reqs[i].body.event]

\* C24 witness: two meeting.ended requests with an asynchronous typed and an
\* asynchronous wildcard handler; the second arrived while the first was
\* suspended in its typed handler, and the first was answered 200 after both
\* of its handlers had settled while the second was still in its wildcard
\* handler.
C24_Witness ==
  /\ Len(reqs) = 2 /\ reqs[1].at = "done" /\ reqs[2].at = "*"
  /\ dispatchLog = <<[req |-> 1, what |-> "effect", key |-> "meeting.ended"],
                     [req |-> 1, what |-> "start", key |-> "meeting.ended"],
                     [req |-> 2, what |-> "effect", key |-> "meeting.ended"],
                     [req |-> 2, what |-> "start", key |-> "meeting.ended"],
                     [req |-> 1, what |-> "end", key |-> "meeting.ended"],
                     [req |-> 1, what |-> "start", key |-> "*"],
                     [req |-> 2, what |-> "end", key |-> "meeting.ended"],
                     [req |-> 2, what |-> "start", key |-> "*"],
                     [req |-> 1, what |-> "end", key |-> "*"],
                     [req |-> 1, what |-> "respond", key |-> "200"]>>


\* C25: when the provider closes an open session on its own, the session is
\* marked unhealthy and teardown starts in that step (the session is no
\* longer reported active), and no audio frame is sent to a session the
\* provider has closed.
C25_ProviderCloseDrains ==
  [][/\ \A s \in SessIds :
          (sess[s] = "open" /\ sess'[s] = "lost" /\ streamingSession = s)
            => ~isGladiaSessionActive'
     /\ \A i \in (Len(sentAudio) + 1)..Len(sentAudio') :
          sess[sentAudio'[i].s] # "lost"
    ]_vars


\* C26: a rejected send is absorbed: sendAudioChunk settles to false instead
\* of throwing, the step changes neither the session flags nor the provider
\* handle, the frame is not sent again, and a frame that arrives while the
\* session is active with its handle set is passed to the provider whatever
\* failed before.
C26_SendErrorAbsorbed ==
  [][/\ \A r \in sendResults' : r.rejected => r.result = "false"
     /\ sendResults' # sendResults
          => UNCHANGED <<waitingForRecordingStatus, transcriptionInitialized,
                         isGladiaSessionActive, streamingSession, sess, endCalls,
                         errPc, sentAudio, chunkCalls>>
     /\ \A i, j \in 1..Len(sentAudio') : i # j => sentAudio'[i].f # sentAudio'[j].f
     /\ (Len(arrivals') = Len(arrivals) + 1
           /\ isGladiaSessionActive /\ streamingSession # 0)
          => sentAudio' = Append(sentAudio, [s |-> streamingSession, f |-> Len(arrivals')])
    ]_vars

\* C26 witness: the send of frame 1 was rejected and settled to false before
\* frame 2 arrived, and frame 2 was sent to the same session, still active.
C26_Witness ==
  /\ [f |-> 1, rejected |-> TRUE, result |-> "false", at |-> 1] \in sendResults
  /\ Len(sentAudio) = 2
  /\ sentAudio[1].f = 1 /\ sentAudio[2].f = 2 /\ sentAudio[1].s = sentAudio[2].s
  /\ isGladiaSessionActive /\ streamingSession = sentAudio[2].s


\* C27: once teardown of a session has been requested (close has been called
\* on its provider handle and is awaiting the acknowledgement), no PCM frame
\* is passed to streamingSession.sendAudio of that session.
C27_NoAudioAfterTeardown ==
  [][\A i \in (Len(sentAudio) + 1)..Len(sentAudio') :
       sess[sentAudio'[i].s] # "closing"
    ]_vars


\* C28: teardown terminates whether or not the provider acknowledges the
\* close: once shutdown() is waiting for the provider session to close, the
\* process eventually exits.
C28_TeardownTerminates ==
  (sigPc = "await" \/ \E k \in SessIds : errPc[k] = "await") ~> (exited # "no")


\* C29: SIGINT starts the shutdown sequence (bot disconnect, proxy.shutdown)
\* at most once, however many times it is delivered.
C29_ShutdownOnce == sigints.started <= 1


\* C30: when an ingress socket of a streaming session closes it is removed
\* from the connection set; if it was the last one, forwarding stops (the
\* session is no longer reported active) and the provider session is being
\* closed; if others remain, the flags, the provider session and the teardown
\* counters are left as they are.
C30_LastCloseDrains ==
  [][\A c \in Conns :
       (/\ conn[c] = "ingress" /\ conn'[c] = "closed" /\ c \in meetingBaasClients
        /\ isGladiaSessionActive /\ streamingSession # 0
        /\ sess[streamingSession] = "open")
         => /\ meetingBaasClients' = meetingBaasClients \ {c}
            /\ IF meetingBaasClients = {c}
               THEN /\ ~isGladiaSessionActive'
                    /\ sess'[streamingSession] = "closing"
                    /\ \E call \in endCalls' : call.s = streamingSession
               ELSE UNCHANGED <<waitingForRecordingStatus, transcriptionInitialized,
                                isGladiaSessionActive, streamingSession, sess, endCalls,
                                closeCount, saves, transcriptLogger, loggerEnded>>
    ]_vars

\* C30 witness: two ingress sockets each had a frame forwarded to session 1,
\* the only session; both have closed, and the session was closed once, by
\* the close handler of the last one.
C30_Witness ==
  /\ conn = [c \in Conns |-> "closed"] /\ meetingBaasClients = {}
  /\ nInits = 1 /\ Len(sentAudio) = 2
  /\ sentAudio[1].s = 1 /\ sentAudio[2].s = 1
  /\ arrivals[1].conn # arrivals[2].conn
  /\ ~isGladiaSessionActive /\ sess[1] = "closing" /\ closeCount[1] = 1
  /\ endCalls = {[s |-> 1, owner |-> "close", k |-> 0]}


\* C31: the subscribers of a transcript event are independent: when the
\* observer throws, an open bot socket is still sent the event; when the bot
\* send throws, the observer has been called; in both cases the journal
\* append has happened and the bot socket stays registered.
C31_SubscribersIndependent ==
  [][Len(events') = Len(events) + 1 =>
       LET e == events'[Len(events')]
       IN (e.observerThrew \/ e.botThrew) =>
            /\ (e.observerThrew /\ ~e.botThrew) => e.target \subseteq e.sentTo
            /\ e.botThrew => Has(e.effects, "observer")
            /\ e.logger # 0 => Len(journal'[e.logger]) = Len(journal[e.logger]) + 1
            /\ botClient' = botClient
    ]_vars


\* The transcript events provider session k emitted, in emission order.
EmittedBy(k) == SelectSeq(events, LAMBDA e : e.s = k)

\* C32: the journal of a session holds exactly the transcript events the
\* provider emitted for that session, in emission order, none missing, none
\* repeated, none of another session.
C32_JournalIsEmissionSequence ==
  \A k \in SessIds :
    /\ Len(journal[k]) = Len(EmittedBy(k))
    /\ \A i \in 1..Len(journal[k]) :
         /\ i <= Len(EmittedBy(k))
         /\ journal[k][i] = [speaker |-> SpeakerToString(EmittedBy(k)[i].prov),
                             text |-> FixedText, isFinal |-> TRUE]


\* C33: the session directory and the transcript file of a journal exist
\* only once a transcript event has been appended to that journal: none
\* exists while the gate is closed, while the provider open is pending or
\* after it failed.
C33_DirectoryAtFirstTranscript ==
  \A k \in SessIds : SessionDirExists(k) => journal[k] # <<>>


\* C34: an ingress payload that is no JSON, or is JSON of none of the
\* structured shapes, is taken as PCM: when it arrives while the session is
\* active it is handed to the provider; a speaker-metadata frame never is.
C34_UnstructuredIsPcm ==
  \A f \in 1..Len(arrivals) :
    /\ (arrivals[f].kind \in {"pcm", "jsonObject", "jsonPrimitiveArray"}
          /\ arrivals[f].active) => f \in ChunkIds
    /\ arrivals[f].kind = "speaker" => f \notin ChunkIds


\* C35: the close of a bot-registered socket that is not the current
\* botClient leaves botClient as it is, and a transcript event emitted while
\* exactly one bot-registered socket is open is sent to that socket.
C35_OtherBotKeepsReceiving ==
  [][/\ \A c \in Conns :
          (conn[c] = "bot" /\ conn'[c] = "closed" /\ botClient \notin {0, c})
            => botClient' = botClient
     /\ Len(events') = Len(events) + 1 =>
          LET e == events'[Len(events')]
          IN Cardinality(e.bots) = 1 => e.sentTo = e.bots
    ]_vars


\* C36: no provider session is leaked: a session that was opened and on
\* which close() has not been called is still referenced by the bridge's
\* handle, and the process has not exited.
C36_NoSessionLeak ==
  \A s \in SessIds :
    (sess[s] = "open" /\ closeCount[s] = 0) => (streamingSession = s /\ exited = "no")


\* C37: every journal is finalized before it is lost: a journal whose logger
\* was created and on which endSession() has not run is still the bridge's
\* current logger, and the process has not exited.
C37_JournalFinalized ==
  \A k \in SessIds :
    (SessionDirExists(k) /\ k \notin loggerEnded) => (transcriptLogger = k /\ exited = "no")


\* C38: the close of the last ingress socket re-arms the gate in Remote mode
\* (waitingForRecordingStatus true, transcriptionInitialized false) and
\* leaves it open in Local mode; a socket that becomes an ingress while no
\* ingress is connected starts no provider session in Remote mode while the
\* gate is armed, and starts a new one in that step in Local mode.
C38_GateRearmedOnLastClose ==
  [][\A c \in Conns :
       /\ (conn[c] = "ingress" /\ conn'[c] = "closed" /\ meetingBaasClients \ {c} = {})
            => /\ waitingForRecordingStatus' = (mode = "Remote")
               /\ ~transcriptionInitialized'
       /\ (conn[c] = "pending" /\ conn'[c] = "ingress" /\ meetingBaasClients = {})
            => /\ (mode = "Remote" /\ waitingForRecordingStatus) => nInits' = nInits
               /\ mode = "Local" => (nInits' = nInits + 1 /\ sess'[nInits'] = "opening")
    ]_vars


\* C39: with recording enabled every frame that took the audio branch is in
\* the recording buffer, in arrival order and with its bytes, whether or not
\* it was forwarded to the provider; a written WAV file holds the bytes of
\* every frame received up to the save.
C39_RecordingIndependentOfGate ==
  recordingEnabled =>
    /\ audioBuffers = [f \in 1..Len(arrivals) |-> [f |-> f, bytes |-> arrivals[f].bytes]]
    /\ wav.written =>
         /\ wav.dataLen = CapturedBytes(1, wav.upTo)
         /\ wav.frames = SelectSeq([i \in 1..wav.upTo |-> i],
                                   LAMBDA f : arrivals[f].bytes > 0)

\* C39 witness: in Remote mode a frame of 4 bytes arrived with the gate
\* closed and was not handed to the provider, a frame of 2 bytes arrived
\* later and was forwarded, and the WAV file written afterwards holds both.
C39_Witness ==
  /\ mode = "Remote" /\ Len(arrivals) = 2
  /\ ~arrivals[1].gateOpen /\ ~arrivals[1].active /\ arrivals[1].bytes = 4
  /\ arrivals[2].active /\ arrivals[2].bytes = 2
  /\ chunkCalls = <<2>>
  /\ wav.written /\ wav.frames = <<1, 2>> /\ wav.dataLen = 6 /\ wav.fileLen = 50


\* C40: whenever the proxy reports the session active (so that arriving PCM
\* is handed to sendAudioChunk) the bridge holds a streaming session handle,
\* and no frame handed to sendAudioChunk is refused for want of one.
C40_ActiveImpliesHandle ==
  /\ isGladiaSessionActive => streamingSession # 0
  /\ \A i \in 1..Len(chunkCalls) : \E j \in 1..Len(sentAudio) : sentAudio[j].f = chunkCalls[i]

====
